---- MODULE Spec2Model ----
(***************************************************************************)
(* Model of the SysTick/PendSV task scheduler of src/src/main.c (Cortex-M4, *)
(* four LED tasks and an idle task).                                        *)
(*                                                                          *)
(* Granularity.  The code never programs the system handler priority        *)
(* registers, so SysTick and PendSV keep the same reset priority and        *)
(* neither handler can preempt the other: each handler is one action.       *)
(* The body of task_delay runs with PRIMASK set, so a call of task_delay    *)
(* is one action too.  A pending PendSV is taken before thread mode         *)
(* executes another task-level statement.  The SysTick timer is             *)
(* asynchronous: in the untimed specifications it may fire between any two  *)
(* actions.                                                                 *)
(*                                                                          *)
(* SpecExc checks that granularity: it executes the handlers statement by   *)
(* statement under the exception priorities.  SpecCtx adds the registers    *)
(* and the words of the task stacks, SpecBoot starts at reset and counts    *)
(* processor cycles, SpecSel and SpecWait exercise update_current_task on   *)
(* its own.                                                                 *)
(***************************************************************************)
EXTENDS Integers, Sequences, FiniteSets, TLC

\* ------------------------------------------------------------------------
\* Program constants (main.h, led.h)
\* ------------------------------------------------------------------------
MAX_TASKS == 5
TASK_READY_STATE == 0
TASK_BLOCKED_STATE == 255
SIZE_TASK_STACK == 1024
SIZE_SCHED_STACK == 1024
SRAM_END == 537001984
LED_GREEN_FREQ == 1000
LED_ORANGE_FREQ == 500
LED_BLUE_FREQ == 250
LED_RED_FREQ == 125
\* bytes between a task's thread-mode PSP and its saved psp_value: the 8-word
\* frame stacked by exception entry plus R4-R11 pushed by PendSV_Handler
FRAME_BYTES == 64
DUMMY_XPSR == 16777216
\* 0xFFFFFFFD, the LR word of the initial frame, read as a signed 32-bit word
EXC_RETURN_THREAD_PSP == -3
TICK_HZ == 1000
SYSTICK_TIM_CLK == 16000000

\* ------------------------------------------------------------------------
\* Bounds of the model
\* ------------------------------------------------------------------------
\* last tick the tick handler produces in the untimed specification
MaxTick == 2
\* largest argument of task_delay in the untimed specification
MaxDelay == 2
\* last tick of the timed run of the program
MaxTickTimed == 1000
\* width of the tick counter in the narrow-counter specification
NarrowBits == 3
\* largest argument of task_delay in the narrow-counter specification
NarrowMaxDelay == 1
\* words of each task stack, from its top down, that the model keeps
StackWords == 32
\* last tick and largest task_delay argument of the register-level
\* specification
MaxTickCtx == 2
MaxDelayCtx == 1
\* processor cycles that no statement of the cycle-counting specification
\* (a call made by main, a handler run, a task statement) exceeds
StmtCycles == 1000
\* last tick of the cycle-counting specification
MaxTickBoot == 130

Tasks == 0..(MAX_TASKS - 1)
UserTasks == 1..(MAX_TASKS - 1)

\* g_tick_count and block_count are uint32_t.  TLC's integers are 32-bit
\* signed, so the counter is reduced modulo 2^30 where no run reaches the
\* wrap, and modulo 2^NarrowBits where the wrap itself is explored.
WideModulus == 2^30
NarrowModulus == 2^NarrowBits

\* task_delay takes a positive duration; 0 is left to the narrow-counter runs
Durations == 1..MaxDelay
NarrowDurations == 0..NarrowMaxDelay

VARIABLES
  g_tick_count,   \* uint32_t g_tick_count
  current_task,   \* uint8_t current_task
  current_state,  \* user_tasks[i].current_state
  block_count,    \* user_tasks[i].block_count
  psp_value,      \* user_tasks[i].psp_value
  PSP,            \* the process stack pointer register (thread-mode value)
  pendsv,         \* ICSR.PENDSVSET
  sleeping,       \* the processor waits in wfi
  pc,             \* next statement of each task's handler loop
  led,            \* GPIOD_ODR bits of the four LEDs, by task
  \* history variables, read by no action's guard or effect on program state
  called_at,      \* g_tick_count at the task's latest task_delay call
  darg,           \* argument of the task's latest task_delay call
  nled,           \* number of led_on/led_off calls the task has made
  nticks,         \* number of SysTick_Handler runs
  cowake,         \* selections after a common wake-up are being recorded
  round,          \* tasks selected since the common wake-up
  waiting,        \* tasks not selected again since their latest task_delay
  sel_hist,       \* selector harness: current_task before the first call,
                  \* then the result of each call
  since,          \* tick handler runs made while the task's latest
                  \* task_delay had it BLOCKED (narrow-counter runs)
  nwait,          \* selections that passed the task over while it was READY
                  \* (waiting harness)
  \* register-level specification
  regs,           \* R0-R3, R12, LR, PC, xPSR and R4-R11 of thread mode
  mem,            \* the words of the task stacks, by address
  outctx,         \* history: registers and PSP of each task when it was last
                  \* switched out
  first,          \* history: PC, xPSR and PSP with which each task left
                  \* PendSV_Handler the first time it was selected
  \* statement-level specification of the two handlers
  systick_pend,   \* ICSR.PENDSTSET
  active,         \* the active exceptions, the one that executes first
  hpc,            \* next statement of each handler
  trun,           \* history: statements the current or latest
                  \* SysTick_Handler run has executed
  \* cycle-counting specification of main and the first ticks
  boot,           \* next statement of main
  systick_on,     \* SYST_CSR.ENABLE
  cvr,            \* cycles until the SysTick counter reaches zero
  spsel           \* CONTROL.SPSEL: thread mode uses PSP

prog == <<g_tick_count, current_task, current_state, block_count, psp_value,
          PSP, pendsv, sleeping, pc, led>>
hist == <<called_at, darg, nled, nticks, cowake, round, waiting, sel_hist>>
\* history variables of the specifications other than Spec, SpecTimed and
\* SpecSel
ctxv == <<regs, mem, outctx, first>>
excv == <<systick_pend, active, hpc, trun>>
bootv == <<boot, systick_on, cvr, spsel>>
ext == <<nwait, ctxv, excv, bootv>>
vars == <<prog, hist, since, ext>>

\* ------------------------------------------------------------------------
\* Stack layout
\* ------------------------------------------------------------------------
\* IDLE_STACK_START given the value of T4_STACK_START
PSP_INIT_ADDRS_dup(i) ==
  CASE i = 0 -> SRAM_END - 3 * SIZE_TASK_STACK
    [] i = 1 -> SRAM_END
    [] i = 2 -> SRAM_END - 1 * SIZE_TASK_STACK
    [] i = 3 -> SRAM_END - 2 * SIZE_TASK_STACK
    [] i = 4 -> SRAM_END - 3 * SIZE_TASK_STACK

PSP_INIT_ADDRS(i) ==
  CASE i = 0 -> SRAM_END - 4 * SIZE_TASK_STACK
    [] i = 1 -> SRAM_END
    [] i = 2 -> SRAM_END - 1 * SIZE_TASK_STACK
    [] i = 3 -> SRAM_END - 2 * SIZE_TASK_STACK
    [] i = 4 -> SRAM_END - 3 * SIZE_TASK_STACK

\* the initial value of MSP, set by init_scheduler_stack
SCHED_STACK_START == SRAM_END - 5 * SIZE_TASK_STACK

\* psp_value after init_tasks_stack: 16 words below the top of the stack
InitPsp(i) == PSP_INIT_ADDRS(i) - FRAME_BYTES

\* the task whose stack region holds the stack pointer sp
StackOwner(sp) ==
  CHOOSE i \in Tasks :
    /\ sp > PSP_INIT_ADDRS(i) - SIZE_TASK_STACK
    /\ sp <= PSP_INIT_ADDRS(i)

\* the task whose context the processor executes in thread mode
Running == StackOwner(PSP)

\* ------------------------------------------------------------------------
\* Task programs
\* ------------------------------------------------------------------------
\* the periods of tasks 3 and 4 exchanged
Period_swapped(i) ==
  CASE i = 1 -> LED_GREEN_FREQ
    [] i = 2 -> LED_ORANGE_FREQ
    [] i = 3 -> LED_RED_FREQ
    [] i = 4 -> LED_BLUE_FREQ

Period(i) ==
  CASE i = 1 -> LED_GREEN_FREQ
    [] i = 2 -> LED_ORANGE_FREQ
    [] i = 3 -> LED_BLUE_FREQ
    [] i = 4 -> LED_RED_FREQ

\* ------------------------------------------------------------------------
\* update_current_task
\* ------------------------------------------------------------------------
\* the break condition of the scan
ScanHit_any(state, idx) == state = TASK_READY_STATE
ScanHit(state, idx) == state = TASK_READY_STATE /\ idx # 0

\* first index examined by the scan
ScanStep_stay(cur) == cur % MAX_TASKS
ScanStep_two(cur) == (cur + 2) % MAX_TASKS
\* the index reduced modulo the number of user tasks
ScanStep_short(cur) == (cur + 1) % (MAX_TASKS - 1)
ScanStep(cur) == (cur + 1) % MAX_TASKS

\* the for loop: i iterations done, cur and state as left by the last one
RECURSIVE select_loop(_, _, _, _)
select_loop(cur, state, i, st) ==
  IF i >= MAX_TASKS THEN <<cur, state>>
  ELSE LET c == ScanStep(cur)
           s == st[c]
       IN  IF ScanHit(s, c) THEN <<c, s>> ELSE select_loop(c, s, i + 1, st)

\* the fallback after the loop
IdleFallback_none(cur, state) == cur
IdleFallback_ready(cur, state) == IF state = TASK_READY_STATE THEN 0 ELSE cur
IdleFallback(cur, state) == IF state = TASK_BLOCKED_STATE THEN 0 ELSE cur

update_current_task(cur, st) ==
  LET r == select_loop(cur, TASK_BLOCKED_STATE, 0, st)
  IN  IdleFallback(r[1], r[2])

\* ------------------------------------------------------------------------
\* Tick source
\* ------------------------------------------------------------------------
update_global_tick_count_twice(tick, M) == (tick + 2) % M
update_global_tick_count(tick, M) == (tick + 1) % M

\* the wake test of the unblock scan
WakeTest_early(bc, tick) == bc = tick + 1
WakeTest(bc, tick) == bc = tick

\* the scan stops at the first task it wakes
unblock_tasks_first(st, bc, tick) ==
  LET due == {i \in Tasks : st[i] # TASK_READY_STATE /\ WakeTest(bc[i], tick)}
  IN  IF due = {} THEN st
      ELSE [st EXCEPT ![CHOOSE i \in due : \A j \in due : i <= j] =
                         TASK_READY_STATE]

unblock_tasks(st, bc, tick) ==
  [i \in Tasks |->
     IF st[i] # TASK_READY_STATE /\ WakeTest(bc[i], tick)
     THEN TASK_READY_STATE ELSE st[i]]

\* ------------------------------------------------------------------------
\* Delay primitive
\* ------------------------------------------------------------------------
WakeTick_late(tick, tick_count, M) == (tick + tick_count + 1) % M
\* the sum kept in a wider type than the counter
WakeTick_nowrap(tick, tick_count, M) == tick + tick_count
WakeTick(tick, tick_count, M) == (tick + tick_count) % M

\* *pICSR |= (1 << PENDSVSET_BIT): the new value of the pending bit
PendSet_lost(pending) == pending
PendSet(pending) == TRUE

\* the body of task_delay, between INTERRUPT_DISABLE and INTERRUPT_ENABLE
task_delay(tick_count, M) ==
  /\ block_count' = [block_count EXCEPT
                       ![current_task] = WakeTick(g_tick_count, tick_count, M)]
  /\ current_state' = [current_state EXCEPT
                         ![current_task] = TASK_BLOCKED_STATE]
  /\ pendsv' = PendSet(pendsv)

\* ------------------------------------------------------------------------
\* Handlers
\* ------------------------------------------------------------------------
SysTick_Handler(M) ==
  /\ g_tick_count' = update_global_tick_count(g_tick_count, M)
  /\ current_state' = unblock_tasks(current_state, block_count, g_tick_count')
  /\ pendsv' = PendSet(pendsv)
  /\ sleeping' = FALSE
  /\ UNCHANGED <<current_task, block_count, psp_value, PSP, pc, led>>

save_psp_value(psps, cur, current_psp) == [psps EXCEPT ![cur] = current_psp]

get_psp_value_prev(psps, cur) == psps[(cur + MAX_TASKS - 1) % MAX_TASKS]
get_psp_value(psps, cur) == psps[cur]

PendSV_Handler ==
  /\ pendsv
  /\ pendsv' = FALSE
  /\ LET saved == save_psp_value(psp_value, current_task, PSP - FRAME_BYTES)
         next == update_current_task(current_task, current_state)
     IN  /\ psp_value' = saved
         /\ current_task' = next
         /\ PSP' = get_psp_value(saved, next) + FRAME_BYTES
  /\ sleeping' = FALSE
  /\ UNCHANGED <<g_tick_count, current_state, block_count, pc, led>>

\* ------------------------------------------------------------------------
\* Thread mode: the task handlers
\* ------------------------------------------------------------------------
\* thread mode executes task i's next statement
CanRun(i) == ~pendsv /\ Running = i

\* led_on(LED) / led_off(LED) at the head of each half period
led_call(i) ==
  /\ CanRun(i)
  /\ pc[i] \in {"led_on", "led_off"}
  /\ led' = [led EXCEPT ![i] = (pc[i] = "led_on")]
  /\ pc' = [pc EXCEPT ![i] = IF pc[i] = "led_on" THEN "delay_on" ELSE "delay_off"]
  /\ UNCHANGED <<g_tick_count, current_task, current_state, block_count,
                 psp_value, PSP, pendsv, sleeping>>

\* task_delay(tick_count) called from task i's handler
task_delay_call(i, tick_count, M) ==
  /\ CanRun(i)
  /\ pc[i] \in {"delay_on", "delay_off"}
  /\ task_delay(tick_count, M)
  /\ pc' = [pc EXCEPT ![i] = IF pc[i] = "delay_on" THEN "led_off" ELSE "led_on"]
  /\ UNCHANGED <<g_tick_count, current_task, psp_value, PSP, sleeping, led>>

\* idle_handler: wfi
idle_handler ==
  /\ CanRun(0)
  /\ pc[0] = "wfi"
  /\ ~sleeping
  /\ sleeping' = TRUE
  /\ UNCHANGED <<g_tick_count, current_task, current_state, block_count,
                 psp_value, PSP, pendsv, pc, led>>

\* ------------------------------------------------------------------------
\* main and the SysTick timer
\* ------------------------------------------------------------------------
\* the calls main makes, in program order
BootProgram ==
  <<"enable_processor_faults", "init_scheduler_stack", "init_tasks_stack",
    "led_init_all", "init_systick_timer", "switch_sp_to_psp", "task1_handler">>

\* init_systick_timer: the reload value written to SYST_RVR
count_val_khz(tick_hz) == (SYSTICK_TIM_CLK \div (tick_hz * 1000)) - 1
count_val(tick_hz) == (SYSTICK_TIM_CLK \div tick_hz) - 1

\* ------------------------------------------------------------------------
\* Exceptions
\* ------------------------------------------------------------------------
Exceptions == {"PendSV", "SysTick"}

\* The priority of each handler (a lower value is a higher priority).  main
\* and the init functions never write the system handler priority
\* registers, so both handlers keep the reset value.
Priority_pendsv_lowest(e) == IF e = "PendSV" THEN 255 ELSE 0
Priority(e) == 0

\* the statements of the handlers, in program order
SysTickProgram_scan_first == <<"unblock", "tick", "pend">>
SysTickProgram == <<"tick", "unblock", "pend">>
PendSVProgram == <<"save", "select", "restore">>
Program(e) == IF e = "SysTick" THEN SysTickProgram ELSE PendSVProgram

\* ------------------------------------------------------------------------
\* Registers and stack memory
\* ------------------------------------------------------------------------
\* the addresses of the stack words the model keeps
StackAddrs ==
  UNION {{PSP_INIT_ADDRS(i) - 4 * k : k \in 1..StackWords} : i \in Tasks}

\* Code addresses are fixed by the linker; the model gives each handler an
\* even entry address and each statement of its loop an address after it.
EntryAddr(i) == 16 * (i + 1)
StmtNo(s) ==
  CASE s = "led_on" -> 1
    [] s = "delay_on" -> 2
    [] s = "led_off" -> 3
    [] s = "delay_off" -> 4
    [] s = "wfi" -> 1
CodeAddr(i, s) == EntryAddr(i) + 2 * StmtNo(s)

\* user_tasks[i].task_handler: a Thumb function pointer has bit 0 set
task_handler(i) == EntryAddr(i) + 1

\* the registers of task i in thread mode when it is about to execute
\* statement s: values private to the task and the statement, all distinct
ThreadRegs(i, s) ==
  LET a == 100 * CodeAddr(i, s)
  IN  [r0_3 |-> [k \in 1..4 |-> a + k],
       r12 |-> a + 5,
       lr |-> a + 6,
       pc |-> CodeAddr(i, s),
       xpsr |-> DUMMY_XPSR,
       r4_11 |-> [k \in 1..8 |-> a + 10 + k]]

\* the registers when main calls task1_handler: R0 as switch_sp_to_psp left
\* it, the T bit set
BootRegs ==
  [r0_3 |-> [k \in 1..4 |-> IF k = 1 THEN 2 ELSE 0],
   r12 |-> 0,
   lr |-> 0,
   pc |-> EntryAddr(1),
   xpsr |-> DUMMY_XPSR,
   r4_11 |-> [k \in 1..8 |-> 0]]

\* the words init_tasks_stack writes for task i, in the order it writes them
\* (each at the next lower address): xPSR, PC, LR, five zero words, eight
\* zero words
InitFrameWords_swapped(i) ==
  <<DUMMY_XPSR, EXC_RETURN_THREAD_PSP, task_handler(i)>>
    \o [j \in 1..5 |-> 0] \o [j \in 1..8 |-> 0]
InitFrameWords(i) ==
  <<DUMMY_XPSR, task_handler(i), EXC_RETURN_THREAD_PSP>>
    \o [j \in 1..5 |-> 0] \o [j \in 1..8 |-> 0]

\* the loop of init_tasks_stack over the tasks, as it leaves the memory
init_tasks_stack(m) ==
  [a \in DOMAIN m |->
     LET i == StackOwner(a + 4)
         k == (PSP_INIT_ADDRS(i) - a) \div 4
     IN  IF k <= Len(InitFrameWords(i)) THEN InitFrameWords(i)[k] ELSE m[a]]

\* n words stored at ascending addresses from base
StoreUp(m, base, ws) ==
  [a \in DOMAIN m |->
     IF a >= base /\ a < base + 4 * Len(ws)
     THEN ws[(a - base) \div 4 + 1] ELSE m[a]]

\* exception entry from thread mode: R0-R3, R12, LR, PC, xPSR stacked below
\* the process stack pointer sp
ExceptionEntry(m, sp, r) ==
  StoreUp(m, sp - 32, r.r0_3 \o <<r.r12, r.lr, r.pc, r.xpsr>>)

\* STMDB R0!,{R4-R11}: R4 at the lowest address
STMDB(m, r0, r) == StoreUp(m, r0 - 32, r.r4_11)

\* LDMIA R0!,{R4-R11}
LDMIA_reversed(m, r0) == [k \in 1..8 |-> m[r0 + 4 * (8 - k)]]
LDMIA(m, r0) == [k \in 1..8 |-> m[r0 + 4 * (k - 1)]]

\* the PC an exception return loads: bit 0 of the stacked word is dropped
ExcReturnPC(w) == w - (w % 2)

\* BX LR with EXC_RETURN: the eight stacked words popped from sp
ExceptionReturn(m, sp, r4_11) ==
  [r0_3 |-> [k \in 1..4 |-> m[sp + 4 * (k - 1)]],
   r12 |-> m[sp + 16],
   lr |-> m[sp + 20],
   pc |-> ExcReturnPC(m[sp + 24]),
   xpsr |-> m[sp + 28],
   r4_11 |-> r4_11]

\* ------------------------------------------------------------------------
\* Initial state: main() up to the call of task1_handler
\* ------------------------------------------------------------------------
InitHist ==
  /\ called_at = [i \in Tasks |-> 0]
  /\ darg = [i \in Tasks |-> 0]
  /\ nled = [i \in Tasks |-> 0]
  /\ nticks = 0
  /\ cowake = FALSE
  /\ round = <<>>
  /\ waiting = {}
  /\ sel_hist = <<>>

InitExt ==
  /\ since = [i \in Tasks |-> 0]
  /\ nwait = [i \in Tasks |-> 0]
  /\ regs = BootRegs
  /\ mem = init_tasks_stack([a \in StackAddrs |-> 0])
  /\ outctx = [i \in Tasks |-> [valid |-> FALSE, regs |-> BootRegs, psp |-> 0]]
  /\ first = [i \in Tasks |-> [done |-> FALSE, pc |-> 0, xpsr |-> 0, psp |-> 0]]
  /\ systick_pend = FALSE
  /\ active = <<>>
  /\ hpc = [e \in Exceptions |-> 1]
  /\ trun = <<>>
  /\ boot = Len(BootProgram) + 1
  /\ systick_on = TRUE
  /\ cvr = count_val(TICK_HZ) + 1
  /\ spsel = TRUE

Init ==
  /\ g_tick_count = 0
  /\ current_task = 1
  /\ current_state = [i \in Tasks |-> TASK_READY_STATE]
  /\ block_count = [i \in Tasks |-> 0]
  /\ psp_value = [i \in Tasks |-> InitPsp(i)]
  /\ PSP = InitPsp(1)
  /\ pendsv = FALSE
  /\ sleeping = FALSE
  /\ pc = [i \in Tasks |-> IF i = 0 THEN "wfi" ELSE "led_on"]
  /\ led = [i \in UserTasks |-> FALSE]
  /\ InitHist
  /\ InitExt

\* ------------------------------------------------------------------------
\* History updates
\* ------------------------------------------------------------------------
AllUser(st, s) == \A i \in UserTasks : st[i] = s

H_delay(i, d) ==
  /\ called_at' = [called_at EXCEPT ![i] = g_tick_count]
  /\ darg' = [darg EXCEPT ![i] = d]
  /\ waiting' = waiting \cup {i}

\* all four user tasks are blocked by calls made at one tick with one duration
SameDelay ==
  /\ AllUser(current_state, TASK_BLOCKED_STATE)
  /\ \A i \in UserTasks : called_at[i] = called_at[1] /\ darg[i] = darg[1]

H_tick ==
  /\ nticks' = nticks + 1
  /\ IF SameDelay /\ AllUser(current_state', TASK_READY_STATE)
     THEN cowake' = TRUE /\ round' = <<>>
     ELSE UNCHANGED <<cowake, round>>

H_switch ==
  /\ round' = IF cowake THEN Append(round, current_task') ELSE <<>>
  /\ cowake' = (cowake /\ Len(round') < MAX_TASKS - 1)
  /\ waiting' = waiting \ {current_task'}

\* ------------------------------------------------------------------------
\* Spec: the scheduler with free tick arrival and task_delay arguments drawn
\* from Durations
\* ------------------------------------------------------------------------
LedStep ==
  \E i \in UserTasks :
    led_call(i) /\ UNCHANGED <<hist, since, ext>>

DelayStep ==
  \E i \in UserTasks, d \in Durations :
    /\ task_delay_call(i, d, WideModulus)
    /\ H_delay(i, d)
    /\ UNCHANGED <<nled, nticks, cowake, round, sel_hist, since, ext>>

TickStep ==
  /\ g_tick_count < MaxTick
  /\ SysTick_Handler(WideModulus)
  /\ H_tick
  /\ UNCHANGED <<called_at, darg, nled, waiting, sel_hist, since, ext>>

SwitchStep ==
  /\ PendSV_Handler
  /\ H_switch
  /\ UNCHANGED <<called_at, darg, nled, nticks, sel_hist, since, ext>>

Next == LedStep \/ DelayStep \/ TickStep \/ SwitchStep

Spec == Init /\ [][Next]_vars

\* ------------------------------------------------------------------------
\* SpecTimed: the program as built (each task delays by its own period), with
\* the timing of the 1 kHz tick.  The SysTick reload is SYSTICK_TIM_CLK /
\* TICK_HZ = 16000 processor cycles, and the work a tick releases (at most
\* one LED call and one task_delay call per task, and five context switches)
\* takes far less: when the timer fires, the processor is waiting in the idle
\* task's wfi.
\* ------------------------------------------------------------------------
TimedLedStep ==
  \E i \in UserTasks :
    /\ led_call(i)
    /\ nled' = [nled EXCEPT ![i] = @ + 1]
    /\ UNCHANGED <<called_at, darg, nticks, cowake, round, waiting, sel_hist,
                   since, ext>>

TimedDelayStep ==
  \E i \in UserTasks :
    /\ task_delay_call(i, Period(i), WideModulus)
    /\ H_delay(i, Period(i))
    /\ UNCHANGED <<nled, nticks, cowake, round, sel_hist, since, ext>>

TimedIdleStep == idle_handler /\ UNCHANGED <<hist, since, ext>>

TimedTickStep ==
  /\ sleeping
  /\ g_tick_count < MaxTickTimed
  /\ SysTick_Handler(WideModulus)
  /\ H_tick
  /\ UNCHANGED <<called_at, darg, nled, waiting, sel_hist, since, ext>>

TimedNext ==
  TimedLedStep \/ TimedDelayStep \/ TimedIdleStep \/ TimedTickStep \/ SwitchStep

SpecTimed == Init /\ [][TimedNext]_vars

\* output changes of task i after its first led_on
Toggles(i) == nled[i] - 1

\* C10 (scenario A): once tick 1000 has been handled and the tasks it woke
\* have run (the processor is back in wfi), task 1 (period 1000) has toggled
\* its output once, from on to off, and task 4 (period 125) eight times.
ScenarioA ==
  (g_tick_count = 1000 /\ sleeping)
    => /\ Toggles(1) = 1
       /\ led[1] = FALSE
       /\ Toggles(4) = 8

\* the quiescent state of tick 1000, all four tasks delayed again
ScenarioAWitness ==
  /\ g_tick_count = 1000
  /\ sleeping
  /\ AllUser(current_state, TASK_BLOCKED_STATE)
  /\ nled[4] = 9

\* ------------------------------------------------------------------------
\* SpecNarrow: the scheduler with a tick counter of NarrowBits bits, running
\* for ever with the timing of SpecTimed.  Each task delays by a duration of
\* its own, fixed for the run and drawn from NarrowDurations (0 included).
\* Thread mode keeps executing, the timer keeps firing and a pending PendSV
\* is taken.
\* ------------------------------------------------------------------------
InitNarrow ==
  /\ g_tick_count = 0
  /\ current_task = 1
  /\ current_state = [i \in Tasks |-> TASK_READY_STATE]
  /\ block_count = [i \in Tasks |-> 0]
  /\ psp_value = [i \in Tasks |-> InitPsp(i)]
  /\ PSP = InitPsp(1)
  /\ pendsv = FALSE
  /\ sleeping = FALSE
  /\ pc = [i \in Tasks |-> IF i = 0 THEN "wfi" ELSE "led_on"]
  /\ led = [i \in UserTasks |-> FALSE]
  /\ called_at = [i \in Tasks |-> 0]
  /\ darg \in {f \in [Tasks -> NarrowDurations] : f[0] = 0}
  /\ nled = [i \in Tasks |-> 0]
  /\ nticks = 0
  /\ cowake = FALSE
  /\ round = <<>>
  /\ waiting = {}
  /\ sel_hist = <<>>
  /\ InitExt

NarrowLedStep == LedStep

NarrowDelayStep ==
  \E i \in UserTasks :
    /\ task_delay_call(i, darg[i], NarrowModulus)
    /\ called_at' = [called_at EXCEPT ![i] = g_tick_count]
    /\ waiting' = waiting \cup {i}
    /\ since' = [since EXCEPT ![i] = 0]
    /\ UNCHANGED <<darg, nled, nticks, cowake, round, sel_hist, ext>>

NarrowIdleStep == idle_handler /\ UNCHANGED <<hist, since, ext>>

NarrowTickStep ==
  /\ sleeping
  /\ SysTick_Handler(NarrowModulus)
  /\ since' = [i \in Tasks |->
                IF current_state[i] = TASK_BLOCKED_STATE /\ since[i] <= NarrowModulus
                THEN since[i] + 1 ELSE since[i]]
  /\ UNCHANGED <<hist, ext>>

NarrowSwitchStep ==
  /\ PendSV_Handler
  /\ waiting' = waiting \ {current_task'}
  /\ UNCHANGED <<called_at, darg, nled, nticks, cowake, round, sel_hist,
                 since, ext>>

NarrowNext ==
  \/ NarrowLedStep
  \/ NarrowDelayStep
  \/ NarrowIdleStep
  \/ NarrowTickStep
  \/ NarrowSwitchStep

SpecNarrow ==
  /\ InitNarrow
  /\ [][NarrowNext]_vars
  /\ WF_vars(NarrowLedStep)
  /\ WF_vars(NarrowDelayStep)
  /\ WF_vars(NarrowIdleStep)
  /\ WF_vars(NarrowTickStep)
  /\ WF_vars(NarrowSwitchStep)

\* task i is blocked by a call of task_delay(0)
BlockedByDelay0(i) ==
  /\ current_state[i] = TASK_BLOCKED_STATE
  /\ darg[i] = 0

\* task i is READY and has been given the processor again
Rescheduled(i) ==
  /\ current_state[i] = TASK_READY_STATE
  /\ current_task = i
  /\ Running = i
  /\ ~pendsv
  /\ i \notin waiting

\* C6 (scenario B, task_delay(0)): a call of task_delay(0) leaves its caller
\* BLOCKED with a context switch pending, every context switch selects a
\* READY task (the idle task when no user task is READY), and the caller is
\* eventually READY and given the processor again: the tick counter comes
\* back to the recorded wake tick after one full period of the counter.
Delay0Progress ==
  /\ [][\A i \in UserTasks :
          (pc'[i] # pc[i] /\ pc[i] \in {"delay_on", "delay_off"})
            => (current_state'[i] = TASK_BLOCKED_STATE /\ pendsv')]_vars
  /\ [][current_task' # current_task
          => current_state[current_task'] = TASK_READY_STATE]_vars
  /\ \A i \in UserTasks : BlockedByDelay0(i) ~> Rescheduled(i)

\* a task that delays by 0 has the processor again after its first call of
\* task_delay(0), while another task delays by a positive duration
Delay0ProgressWitness ==
  \E i, j \in UserTasks :
    /\ darg[i] = 0
    /\ darg[j] > 0
    /\ pc[i] = "led_off"
    /\ Rescheduled(i)

\* ------------------------------------------------------------------------
\* SpecSel: update_current_task called repeatedly on every table in which the
\* idle task is READY, from every value of current_task
\* ------------------------------------------------------------------------
InitSel ==
  /\ g_tick_count = 0
  /\ current_task \in Tasks
  /\ current_state \in {st \in [Tasks -> {TASK_READY_STATE, TASK_BLOCKED_STATE}] :
                          st[0] = TASK_READY_STATE}
  /\ block_count = [i \in Tasks |-> 0]
  /\ psp_value = [i \in Tasks |-> InitPsp(i)]
  /\ PSP = InitPsp(1)
  /\ pendsv = FALSE
  /\ sleeping = FALSE
  /\ pc = [i \in Tasks |-> IF i = 0 THEN "wfi" ELSE "led_on"]
  /\ led = [i \in UserTasks |-> FALSE]
  /\ called_at = [i \in Tasks |-> 0]
  /\ darg = [i \in Tasks |-> 0]
  /\ nled = [i \in Tasks |-> 0]
  /\ nticks = 0
  /\ cowake = FALSE
  /\ round = <<>>
  /\ waiting = {}
  /\ sel_hist = <<current_task>>
  /\ InitExt

Select ==
  /\ Len(sel_hist) <= MAX_TASKS
  /\ current_task' = update_current_task(current_task, current_state)
  /\ sel_hist' = Append(sel_hist, current_task')
  /\ UNCHANGED <<g_tick_count, current_state, block_count, psp_value, PSP,
                 pendsv, sleeping, pc, led, called_at, darg, nled, nticks,
                 cowake, round, waiting, since, ext>>

NextSel == Select

SpecSel == InitSel /\ [][NextSel]_vars

\* update_current_task has been called at least once
Selected == Len(sel_hist) >= 2
\* current_task before the latest call
SelFrom == sel_hist[Len(sel_hist) - 1]
\* the user task after index i in the circular order 1, 2, 3, 4, 1, ...
NextUser(i) == IF i = MAX_TASKS - 1 THEN 1 ELSE i + 1

\* C2 (round-robin fairness): while all user tasks are READY, each call of
\* update_current_task selects the user task that follows the current index
\* (index 1 after index 4 and after the idle index), so four successive calls
\* select the four user tasks once each and the idle index is never selected.
RoundRobinOrder ==
  AllUser(current_state, TASK_READY_STATE)
    => /\ \A k \in 2..Len(sel_hist) : sel_hist[k] = NextUser(sel_hist[k - 1])
       /\ Len(sel_hist) >= MAX_TASKS
            => {sel_hist[k] : k \in 2..MAX_TASKS} = UserTasks

\* five successive selections from task 3 with all user tasks READY: one
\* revolution and the first repeat
RoundRobinOrderWitness ==
  /\ AllUser(current_state, TASK_READY_STATE)
  /\ sel_hist = <<3, 4, 1, 2, 3, 4>>

\* C3 (idle fallback): from every value of current_task, a call of
\* update_current_task made while all user tasks are BLOCKED leaves
\* current_task = 0.
IdleFallbackHolds ==
  (Selected /\ AllUser(current_state, TASK_BLOCKED_STATE)) => current_task = 0

\* the call has been made from a user task and from the idle index
IdleFallbackWitness ==
  /\ AllUser(current_state, TASK_BLOCKED_STATE)
  /\ sel_hist = <<2, 0, 0>>

\* C4 (idle only as a fallback): after a call of update_current_task,
\* current_task = 0 only if all user tasks are BLOCKED, and if some user task
\* is READY the selected index is a READY user task.
IdleOnlyFallback ==
  Selected
    => /\ current_task = 0 => AllUser(current_state, TASK_BLOCKED_STATE)
       /\ ~AllUser(current_state, TASK_BLOCKED_STATE)
            => /\ current_task \in UserTasks
               /\ current_state[current_task] = TASK_READY_STATE

\* from task 3 with only task 1 READY the scan passes task 4 and the idle
\* index and selects task 1
IdleOnlyFallbackWitness ==
  /\ Selected
  /\ SelFrom = 3
  /\ current_task = 1
  /\ current_state[4] = TASK_BLOCKED_STATE
  /\ current_state[2] = TASK_BLOCKED_STATE

\* a step of the tick handler
TickRan == nticks' = nticks + 1

\* C1 (delay accuracy): a user task that called task_delay(D), D > 0, at tick
\* T is BLOCKED after every tick handler run that leaves g_tick_count below
\* T+D, and the step that makes it READY is the tick handler run that makes
\* g_tick_count equal to T+D.
DelayAccuracy ==
  /\ [](\A i \in UserTasks :
          current_state[i] = TASK_BLOCKED_STATE
            => g_tick_count < called_at[i] + darg[i])
  /\ [][\A i \in UserTasks :
          (current_state[i] = TASK_BLOCKED_STATE
             /\ current_state'[i] = TASK_READY_STATE)
            => (TickRan /\ g_tick_count' = called_at[i] + darg[i])]_vars

\* a task that called task_delay(MaxDelay) has just been made READY, MaxDelay
\* ticks after its call
DelayAccuracyWitness ==
  \E i \in UserTasks :
    /\ darg[i] = MaxDelay
    /\ darg[i] >= 2
    /\ i \in waiting
    /\ current_state[i] = TASK_READY_STATE
    /\ g_tick_count = called_at[i] + darg[i]

\* C5 (task_delay suspends its caller): a user task executes a statement of
\* its handler only while it is READY, is the current task, and has been
\* selected by the context-switch handler since its latest task_delay call;
\* and when it does, at least D ticks have passed since that call.
DelaySuspends ==
  [][\A i \in UserTasks :
       pc'[i] # pc[i]
         => /\ current_state[i] = TASK_READY_STATE
            /\ current_task = i
            /\ i \notin waiting
            /\ g_tick_count >= called_at[i] + darg[i]]_vars

\* a task is back in its handler after a delay of MaxDelay ticks: it has run
\* the statement that follows its first task_delay call
DelaySuspendsWitness ==
  \E i \in UserTasks :
    /\ darg[i] = MaxDelay
    /\ pc[i] = "delay_off"
    /\ g_tick_count >= called_at[i] + darg[i]

\* C7 (no cancellation or shortening): while a user task is BLOCKED no step
\* changes its block_count, and the only step that makes it READY is the tick
\* handler run that makes g_tick_count equal to that block_count.
NoCancellation ==
  [][\A i \in UserTasks :
       current_state[i] = TASK_BLOCKED_STATE
         => /\ block_count'[i] = block_count[i]
            /\ current_state'[i] = TASK_READY_STATE
                 => (TickRan /\ g_tick_count' = block_count[i])]_vars

\* a task is still BLOCKED although a tick has passed and another task has
\* called task_delay after it did
NoCancellationWitness ==
  \E i, j \in UserTasks :
    /\ i # j
    /\ current_state[i] = TASK_BLOCKED_STATE
    /\ current_state[j] = TASK_BLOCKED_STATE
    /\ called_at[j] > called_at[i]
    /\ block_count[i] > g_tick_count

\* C8 (tick accounting): g_tick_count equals the number of tick handler runs,
\* and a step changes g_tick_count only if it is a tick handler run, which
\* adds exactly 1.
TickAccounting ==
  /\ [](g_tick_count = nticks)
  /\ [][(g_tick_count' # g_tick_count \/ TickRan)
         => (TickRan /\ g_tick_count' = g_tick_count + 1)]_vars

\* MaxTick ticks have been counted while tasks delayed and were switched
TickAccountingWitness ==
  /\ nticks = MaxTick
  /\ nticks >= 2
  /\ \E i \in UserTasks : called_at[i] = MaxTick

\* the tasks selected since the latest common wake-up, as a set
RoundSet == {round[k] : k \in 1..Len(round)}

\* C9 (scenario C): when all four user tasks are blocked by task_delay calls
\* made at one tick T with one duration D, a tick handler run leaves all four
\* BLOCKED unless it makes g_tick_count equal to T+D, and then it makes all
\* four READY; the selections that follow pick four distinct user tasks.
ScenarioC ==
  /\ [][(SameDelay /\ TickRan)
         => IF g_tick_count' = called_at[1] + darg[1]
            THEN AllUser(current_state', TASK_READY_STATE)
            ELSE AllUser(current_state', TASK_BLOCKED_STATE)]_vars
  /\ [](/\ RoundSet \subseteq UserTasks
        /\ Cardinality(RoundSet) = Len(round))

\* after a common wake-up from a delay of at least 2 ticks four selections
\* have been made; task 4, selected last, has not yet run again
ScenarioCWitness ==
  /\ Len(round) = MAX_TASKS - 1
  /\ round[MAX_TASKS - 1] = 4
  /\ 4 \notin waiting
  /\ darg[4] >= 2
  /\ g_tick_count >= called_at[4] + darg[4]

\* ------------------------------------------------------------------------
\* The idle task
\* ------------------------------------------------------------------------
\* C11: in every reachable state the idle task's entry of the task table is
\* READY: no sequence of ticks, task_delay calls and context switches puts
\* user_tasks[0] into the BLOCKED state.
IdleAlwaysReady == current_state[0] = TASK_READY_STATE

\* the idle task has been switched in after ticks, delays and switches: all
\* four user tasks are blocked and the idle task is the running task
IdleAlwaysReadyWitness ==
  /\ nticks >= 1
  /\ AllUser(current_state, TASK_BLOCKED_STATE)
  /\ current_task = 0
  /\ Running = 0
  /\ ~pendsv
  /\ current_state[0] = TASK_READY_STATE

\* ------------------------------------------------------------------------
\* The selector's result
\* ------------------------------------------------------------------------
\* C18: from every value of current_task and every table state in which the
\* idle task is READY, after update_current_task returns the selected index
\* is in 0..MAX_TASKS-1 and the selected task is READY: the selector never
\* picks a BLOCKED task.
SelectorNeverBlocked ==
  Selected
    => /\ current_task \in Tasks
       /\ current_state[current_task] = TASK_READY_STATE

\* from task 1 the scan has passed the BLOCKED task 2 and selected the READY
\* task 3; the next call passes the BLOCKED tasks 4, 1 and 2 and selects
\* task 3 again
SelectorNeverBlockedWitness ==
  /\ sel_hist = <<1, 3, 3>>
  /\ current_task = 3
  /\ current_state[3] = TASK_READY_STATE
  /\ \A i \in UserTasks \ {3} : current_state[i] = TASK_BLOCKED_STATE

\* ------------------------------------------------------------------------
\* Stack regions
\* ------------------------------------------------------------------------
\* a full-descending stack of size bytes that starts at top occupies the
\* addresses top - size .. top - 1
RegionLo(top, size) == top - size
Overlap(top1, size1, top2, size2) ==
  /\ RegionLo(top1, size1) < top2
  /\ RegionLo(top2, size2) < top1

\* C14: the five task stack regions (SIZE_TASK_STACK bytes each, growing
\* down from PSP_INIT_ADDRS) and the scheduler stack region do not overlap
\* one another, and the 16-word frame at each task's psp_value (the frame
\* init_tasks_stack writes, and every frame saved there later) lies entirely
\* inside that task's own region.
StacksDisjoint ==
  /\ \A i, j \in Tasks :
       i # j => ~Overlap(PSP_INIT_ADDRS(i), SIZE_TASK_STACK,
                         PSP_INIT_ADDRS(j), SIZE_TASK_STACK)
  /\ \A i \in Tasks :
       ~Overlap(PSP_INIT_ADDRS(i), SIZE_TASK_STACK,
                SCHED_STACK_START, SIZE_SCHED_STACK)
  /\ \A i \in Tasks :
       /\ RegionLo(PSP_INIT_ADDRS(i), SIZE_TASK_STACK) <= psp_value[i]
       /\ psp_value[i] + FRAME_BYTES <= PSP_INIT_ADDRS(i)

\* every task has a frame in memory: the idle task runs, tasks 2, 3 and 4
\* have been switched in and out again, and task 1, which main entered below
\* its initial frame, has been saved 16 words further down
StacksDisjointWitness ==
  /\ Running = 0
  /\ nticks >= 1
  /\ psp_value[1] = InitPsp(1) - FRAME_BYTES
  /\ \A i \in UserTasks : pc[i] # "led_on"
  /\ \A i \in Tasks \ {1} : psp_value[i] = InitPsp(i)

\* ------------------------------------------------------------------------
\* Delays across the wrap of the tick counter
\* ------------------------------------------------------------------------
\* the task's latest task_delay(D) had D > 0 and was called at a tick T for
\* which T + D overflows the counter
Overflowed(i) ==
  /\ darg[i] > 0
  /\ called_at[i] + darg[i] >= NarrowModulus

WaitSelect ==
  /\ \A i \in UserTasks : nwait[i] < MAX_TASKS
  /\ current_task' = update_current_task(current_task, current_state)
  /\ nwait' = [i \in Tasks |->
                IF /\ i \in UserTasks
                   /\ current_state[i] = TASK_READY_STATE
                   /\ i # current_task'
                THEN nwait[i] + 1 ELSE 0]
  /\ UNCHANGED <<g_tick_count, current_state, block_count, psp_value, PSP,
                 pendsv, sleeping, pc, led, hist, since, ctxv, excv, bootv>>

\* a user task calls task_delay: its entry becomes BLOCKED
WaitBlock ==
  \E i \in UserTasks :
    /\ current_state[i] = TASK_READY_STATE
    /\ current_state' = [current_state EXCEPT ![i] = TASK_BLOCKED_STATE]
    /\ nwait' = [nwait EXCEPT ![i] = 0]
    /\ UNCHANGED <<g_tick_count, current_task, block_count, psp_value, PSP,
                   pendsv, sleeping, pc, led, hist, since, ctxv, excv, bootv>>

\* a tick handler run wakes some of the blocked tasks
WaitWake ==
  \E S \in SUBSET UserTasks :
    /\ S # {}
    /\ \A i \in S : current_state[i] = TASK_BLOCKED_STATE
    /\ current_state' = [i \in Tasks |->
                          IF i \in S THEN TASK_READY_STATE ELSE current_state[i]]
    /\ UNCHANGED <<g_tick_count, current_task, block_count, psp_value, PSP,
                   pendsv, sleeping, pc, led, hist, since, nwait, ctxv, excv,
                   bootv>>

NextWait == WaitSelect \/ WaitBlock \/ WaitWake

SpecWait == InitSel /\ [][NextWait]_vars

\* number of indices the scan examines from index a up to and including b
Fwd(a, b) == ((b - a + MAX_TASKS - 1) % MAX_TASKS) + 1

\* a step in which update_current_task has moved current_task or passed a
\* READY task over
SelectionMade ==
  /\ current_state' = current_state
  /\ (current_task' # current_task \/ nwait' # nwait)

\* C19: a user task that is READY and stays READY is passed over by at most
\* MAX_TASKS-2 consecutive calls of update_current_task, so that it is
\* selected within MAX_TASKS-1 calls, from every current task and whatever
\* blocking and waking of other tasks happens between the calls; and no call
\* moves current_task past a READY user task.
BoundedWaiting ==
  /\ [](\A i \in UserTasks : nwait[i] <= MAX_TASKS - 2)
  /\ [][SelectionMade
         => \A j \in UserTasks :
              (current_state[j] = TASK_READY_STATE /\ j # current_task')
                => Fwd(current_task, j) > Fwd(current_task, current_task')]_vars

\* task 2 has been READY through three calls that selected other tasks, and
\* the next call must select it
BoundedWaitingWitness ==
  /\ nwait[2] = MAX_TASKS - 2
  /\ current_state[2] = TASK_READY_STATE
  /\ current_task = 1
  /\ update_current_task(current_task, current_state) = 2

\* ------------------------------------------------------------------------
\* SpecCtx: the scheduler with the registers of thread mode and the words of
\* the task stacks; ticks arrive at any point up to MaxTickCtx
\* ------------------------------------------------------------------------
CtxLedStep ==
  \E i \in UserTasks :
    /\ led_call(i)
    /\ regs' = ThreadRegs(i, pc'[i])
    /\ UNCHANGED <<hist, since, nwait, mem, outctx, first, excv, bootv>>

CtxDelayStep ==
  \E i \in UserTasks, d \in 1..MaxDelayCtx :
    /\ task_delay_call(i, d, WideModulus)
    /\ regs' = ThreadRegs(i, pc'[i])
    /\ UNCHANGED <<hist, since, nwait, mem, outctx, first, excv, bootv>>

CtxTickStep ==
  /\ g_tick_count < MaxTickCtx
  /\ SysTick_Handler(WideModulus)
  /\ UNCHANGED <<hist, since, ext>>

\* PendSV_Handler with the words it and the exception entry store and the
\* registers it and the exception return load
CtxSwitchStep ==
  /\ PendSV_Handler
  /\ LET stacked == ExceptionEntry(mem, PSP, regs)
         pushed == STMDB(stacked, PSP - 32, regs)
         r0 == get_psp_value(psp_value', current_task')
         after == ExceptionReturn(pushed, r0 + 32, LDMIA(pushed, r0))
     IN  /\ mem' = pushed
         /\ regs' = after
         /\ outctx' = [outctx EXCEPT ![current_task] =
                        [valid |-> TRUE, regs |-> regs, psp |-> PSP]]
         /\ first' = IF first[current_task'].done THEN first
                     ELSE [first EXCEPT ![current_task'] =
                             [done |-> TRUE, pc |-> after.pc,
                              xpsr |-> after.xpsr, psp |-> PSP']]
  /\ UNCHANGED <<hist, since, nwait, excv, bootv>>

NextCtx == CtxLedStep \/ CtxDelayStep \/ CtxTickStep \/ CtxSwitchStep

SpecCtx == Init /\ [][NextCtx]_vars

\* PendSV_Handler has left with task i selected for the first time, at the
\* task's entry function, with only the T bit set in xPSR and the process
\* stack pointer at the top of the task's stack
StartsAtEntry(i) ==
  first[i].done
    => /\ first[i].pc = EntryAddr(i)
       /\ first[i].xpsr = DUMMY_XPSR
       /\ first[i].psp = PSP_INIT_ADDRS(i)

\* registers that, switched out with the process stack pointer at the top
\* of task i's stack, would leave the words of the initial frame
FreshRegs(i) ==
  [r0_3 |-> [k \in 1..4 |-> 0],
   r12 |-> 0,
   lr |-> EXC_RETURN_THREAD_PSP,
   pc |-> task_handler(i),
   xpsr |-> DUMMY_XPSR,
   r4_11 |-> [k \in 1..8 |-> 0]]

\* the frame init_tasks_stack writes for task i has the layout of a save
SameLayout(i) ==
  LET blank == [a \in StackAddrs |-> 0]
      top == PSP_INIT_ADDRS(i)
      image == STMDB(ExceptionEntry(blank, top, FreshRegs(i)), top - 32,
                     FreshRegs(i))
  IN  \A k \in 1..16 : init_tasks_stack(blank)[top - 4 * k] = image[top - 4 * k]

SwitchRan == pendsv /\ ~pendsv'

\* C15: a task selected by PendSV_Handler after it has been switched out
\* resumes with the R4-R11, the R0-R3, R12, LR, PC and xPSR and the process
\* stack pointer it had when it was switched out, whatever switches to other
\* tasks happened in between; a switch whose outgoing and incoming task are
\* the same leaves the registers and the process stack pointer unchanged.
ContextRoundTrip ==
  /\ [][SwitchRan
         => (outctx'[current_task'].valid
               => /\ regs' = outctx'[current_task'].regs
                  /\ PSP' = outctx'[current_task'].psp)]_vars
  /\ [][(SwitchRan /\ current_task' = current_task)
         => (regs' = regs /\ PSP' = PSP)]_vars

\* task 2 runs again, inside its loop, with the registers it was switched
\* out with, after every other task has been switched out at least once
ContextRoundTripWitness ==
  /\ current_task = 2
  /\ ~pendsv
  /\ \A j \in Tasks : outctx[j].valid
  /\ regs = outctx[2].regs
  /\ regs.pc = CodeAddr(2, "led_off")
  /\ regs.r4_11 = ThreadRegs(2, "led_off").r4_11

\* ------------------------------------------------------------------------
\* SpecExc: the two handlers statement by statement.  The timer sets the
\* SysTick pending bit at any point; a pending exception is taken when the
\* processor is in thread mode or its priority is higher than that of the
\* handler that executes; of two pending exceptions of one priority either
\* may be taken first.  Thread mode runs only while no exception is
\* pending, and the body of task_delay runs with PRIMASK set.
\* ------------------------------------------------------------------------
Pending(e) == IF e = "PendSV" THEN pendsv ELSE systick_pend

Takeable(e) ==
  /\ Pending(e)
  /\ IF active = <<>> THEN TRUE ELSE Priority(e) < Priority(Head(active))
  /\ \A f \in Exceptions : Pending(f) => Priority(e) <= Priority(f)

\* the handler on top of the active exceptions executes its statement s
Executes(e, s) ==
  /\ active # <<>>
  /\ Head(active) = e
  /\ \A f \in Exceptions : ~Takeable(f)
  /\ hpc[e] <= Len(Program(e))
  /\ Program(e)[hpc[e]] = s
  /\ hpc' = [hpc EXCEPT ![e] = @ + 1]
  /\ trun' = IF e = "SysTick" THEN Append(trun, s) ELSE trun
  /\ UNCHANGED <<systick_pend, active>>

\* state no handler statement of SpecExc changes
rest == <<sleeping, pc, led, hist, since, nwait, ctxv, bootv>>

ExcTimerStep ==
  /\ g_tick_count < MaxTickCtx
  /\ ~systick_pend
  /\ systick_pend' = TRUE
  /\ UNCHANGED <<prog, active, hpc, trun, hist, since, nwait, ctxv, bootv>>

ExcEntryStep ==
  \E e \in Exceptions :
    /\ Takeable(e)
    /\ active' = <<e>> \o active
    /\ hpc' = [hpc EXCEPT ![e] = 1]
    /\ IF e = "SysTick"
       THEN systick_pend' = FALSE /\ trun' = <<>> /\ UNCHANGED pendsv
       ELSE pendsv' = FALSE /\ UNCHANGED <<systick_pend, trun>>
    /\ UNCHANGED <<g_tick_count, current_task, current_state, block_count,
                   psp_value, PSP, rest>>

ExcReturnStep ==
  /\ active # <<>>
  /\ \A f \in Exceptions : ~Takeable(f)
  /\ hpc[Head(active)] > Len(Program(Head(active)))
  /\ active' = Tail(active)
  /\ UNCHANGED <<prog, systick_pend, hpc, trun, hist, since, nwait, ctxv,
                 bootv>>

\* SysTick_Handler: update_global_tick_count()
ExcTickIncr ==
  /\ Executes("SysTick", "tick")
  /\ g_tick_count' = update_global_tick_count(g_tick_count, WideModulus)
  /\ UNCHANGED <<current_task, current_state, block_count, psp_value, PSP,
                 pendsv, rest>>

\* SysTick_Handler: unblock_tasks()
ExcUnblock ==
  /\ Executes("SysTick", "unblock")
  /\ current_state' = unblock_tasks(current_state, block_count, g_tick_count)
  /\ UNCHANGED <<g_tick_count, current_task, block_count, psp_value, PSP,
                 pendsv, rest>>

\* SysTick_Handler: *pICSR |= (1 << PENDSVSET_BIT)
ExcPend ==
  /\ Executes("SysTick", "pend")
  /\ pendsv' = PendSet(pendsv)
  /\ UNCHANGED <<g_tick_count, current_task, current_state, block_count,
                 psp_value, PSP, rest>>

\* PendSV_Handler: MRS R0,PSP; STMDB R0!,{R4-R11}; BL save_psp_value
ExcSave ==
  /\ Executes("PendSV", "save")
  /\ psp_value' = save_psp_value(psp_value, current_task, PSP - FRAME_BYTES)
  /\ UNCHANGED <<g_tick_count, current_task, current_state, block_count,
                 PSP, pendsv, rest>>

\* PendSV_Handler: BL update_current_task
ExcSelect ==
  /\ Executes("PendSV", "select")
  /\ current_task' = update_current_task(current_task, current_state)
  /\ UNCHANGED <<g_tick_count, current_state, block_count, psp_value, PSP,
                 pendsv, rest>>

\* PendSV_Handler: BL get_psp_value; LDMIA R0!,{R4-R11}; MSR PSP,R0
ExcRestore ==
  /\ Executes("PendSV", "restore")
  /\ PSP' = get_psp_value(psp_value, current_task) + FRAME_BYTES
  /\ UNCHANGED <<g_tick_count, current_task, current_state, block_count,
                 psp_value, pendsv, rest>>

\* thread mode executes only while no exception is active or pending
ThreadMode == active = <<>> /\ ~systick_pend

ExcLedStep ==
  /\ ThreadMode
  /\ \E i \in UserTasks : led_call(i)
  /\ UNCHANGED <<hist, since, ext>>

ExcDelayStep ==
  /\ ThreadMode
  /\ \E i \in UserTasks, d \in 1..MaxDelayCtx :
       task_delay_call(i, d, WideModulus)
  /\ UNCHANGED <<hist, since, ext>>

NextExc ==
  \/ ExcTimerStep
  \/ ExcEntryStep
  \/ ExcReturnStep
  \/ ExcTickIncr
  \/ ExcUnblock
  \/ ExcPend
  \/ ExcSave
  \/ ExcSelect
  \/ ExcRestore
  \/ ExcLedStep
  \/ ExcDelayStep

SpecExc == Init /\ [][NextExc]_vars

\* exception e is active, executing or preempted
InFlight(e) == \E k \in 1..Len(active) : active[k] = e

\* the run of handler e that is in flight has executed its statement s
Done(e, s) == \E k \in 1..(hpc[e] - 1) : Program(e)[k] = s

\* C13: PendSV_Handler never starts while SysTick_Handler is between its
\* tick increment and the end of its unblock scan, SysTick_Handler never
\* runs while PendSV_Handler is between its save of the outgoing stack
\* pointer and its restore of the incoming one, and PendSV_Handler is never
\* entered again while a run of it is in flight.
HandlersAtomic ==
  /\ ~(/\ InFlight("PendSV") /\ InFlight("SysTick")
        /\ Head(active) = "PendSV"
        /\ Done("SysTick", "tick") /\ ~Done("SysTick", "unblock"))
  /\ ~(/\ InFlight("PendSV") /\ InFlight("SysTick")
        /\ Head(active) = "SysTick"
        /\ Done("PendSV", "save") /\ ~Done("PendSV", "restore"))
  /\ Cardinality({k \in 1..Len(active) : active[k] = "PendSV"}) <= 1

\* a tick arrives while PendSV_Handler is between save and restore, and
\* stays pending; and a task_delay call has pended PendSV before
HandlersAtomicWitness ==
  /\ active = <<"PendSV">>
  /\ Done("PendSV", "save")
  /\ ~Done("PendSV", "restore")
  /\ systick_pend
  /\ g_tick_count >= 1

\* PendSV_Handler executes its call of update_current_task
SelectionStep ==
  /\ active # <<>>
  /\ Head(active) = "PendSV"
  /\ hpc["PendSV"] <= Len(PendSVProgram)
  /\ PendSVProgram[hpc["PendSV"]] = "select"
  /\ hpc'["PendSV"] = hpc["PendSV"] + 1

\* SysTick_Handler returns
TickReturns ==
  /\ active # <<>>
  /\ Head(active) = "SysTick"
  /\ active' = Tail(active)

IsPrefix(t, u) == Len(t) <= Len(u) /\ \A k \in 1..Len(t) : t[k] = u[k]

\* C16: every SysTick_Handler run executes the tick increment, then the
\* unblock scan, then the setting of the PendSV pending bit, and returns with
\* all three done and the bit set; while the handler is in flight no
\* statement of the context switch executes; and when PendSV_Handler makes
\* its selection no task is BLOCKED with its wake tick equal to the tick
\* counter: a task due on a tick has been made READY before the selection
\* that the tick requested.
TickThenSwitch ==
  /\ [](IsPrefix(trun, <<"tick", "unblock", "pend">>))
  /\ [][TickReturns => (trun = <<"tick", "unblock", "pend">> /\ pendsv)]_vars
  /\ [][InFlight("SysTick")
         => (/\ current_task' = current_task
             /\ psp_value' = psp_value
             /\ PSP' = PSP
             /\ hpc'["PendSV"] = hpc["PendSV"])]_vars
  /\ [][SelectionStep
         => (/\ ~InFlight("SysTick")
             /\ \A i \in Tasks :
                  current_state[i] = TASK_BLOCKED_STATE
                    => block_count[i] # g_tick_count)]_vars

\* the tick handler has run to its end, woken a user task whose wake tick
\* is the new tick, and the selection made afterwards has picked that task
TickThenSwitchWitness ==
  /\ active = <<"PendSV">>
  /\ Done("PendSV", "select")
  /\ trun = <<"tick", "unblock", "pend">>
  /\ g_tick_count >= 1
  /\ current_task \in UserTasks
  /\ block_count[current_task] = g_tick_count
  /\ current_state[current_task] = TASK_READY_STATE

\* ------------------------------------------------------------------------
\* SpecBoot: the program from reset, with processor cycles counted.  When
\* init_systick_timer enables the counter it loads the reload value and
\* counts down one per cycle; SysTick is pended when it reaches zero.  Every
\* statement is charged StmtCycles cycles, and one that could not complete
\* before the counter reaches zero is preceded by the tick.  wfi waits for
\* the tick.  The tasks call task_delay with their LED periods.
\* ------------------------------------------------------------------------
InitBoot ==
  /\ g_tick_count = 0
  /\ current_task = 1
  /\ current_state = [i \in Tasks |-> 0]
  /\ block_count = [i \in Tasks |-> 0]
  /\ psp_value = [i \in Tasks |-> 0]
  /\ PSP = 0
  /\ pendsv = FALSE
  /\ sleeping = FALSE
  /\ pc = [i \in Tasks |-> IF i = 0 THEN "wfi" ELSE "led_on"]
  /\ led = [i \in UserTasks |-> FALSE]
  /\ InitHist
  /\ since = [i \in Tasks |-> 0]
  /\ nwait = [i \in Tasks |-> 0]
  /\ regs = BootRegs
  /\ mem = [a \in StackAddrs |-> 0]
  /\ outctx = [i \in Tasks |-> [valid |-> FALSE, regs |-> BootRegs, psp |-> 0]]
  /\ first = [i \in Tasks |-> [done |-> FALSE, pc |-> 0, xpsr |-> 0, psp |-> 0]]
  /\ systick_pend = FALSE
  /\ active = <<>>
  /\ hpc = [e \in Exceptions |-> 1]
  /\ trun = <<>>
  /\ boot = 1
  /\ systick_on = FALSE
  /\ cvr = 0
  /\ spsel = FALSE

\* main has called task1_handler
Booted == boot > Len(BootProgram)

\* a statement completes before the counter reaches zero
CanStep == ~systick_on \/ cvr >= StmtCycles

\* the cycles of one statement pass
Elapse == cvr' = IF systick_on THEN cvr - StmtCycles ELSE cvr

\* main executes its next call
BootStep ==
  /\ ~Booted
  /\ ~pendsv
  /\ CanStep
  /\ boot' = boot + 1
  /\ IF BootProgram[boot] = "init_tasks_stack"
     THEN /\ current_state' = [i \in Tasks |-> TASK_READY_STATE]
          /\ psp_value' = [i \in Tasks |-> InitPsp(i)]
          /\ mem' = init_tasks_stack(mem)
     ELSE UNCHANGED <<current_state, psp_value, mem>>
  /\ IF BootProgram[boot] = "init_systick_timer"
     THEN systick_on' = TRUE /\ cvr' = count_val(TICK_HZ) + 1
     ELSE UNCHANGED systick_on /\ Elapse
  /\ IF BootProgram[boot] = "switch_sp_to_psp"
     THEN PSP' = get_psp_value(psp_value, current_task) /\ spsel' = TRUE
     ELSE UNCHANGED <<PSP, spsel>>
  /\ UNCHANGED <<g_tick_count, current_task, block_count, pendsv, sleeping,
                 pc, led, hist, since, nwait, regs, outctx, first, excv>>

BootTickStep ==
  /\ systick_on
  /\ cvr < StmtCycles
  /\ g_tick_count < MaxTickBoot
  /\ SysTick_Handler(WideModulus)
  /\ cvr' = cvr + count_val(TICK_HZ) + 1 - StmtCycles
  /\ UNCHANGED <<hist, since, nwait, ctxv, excv, boot, systick_on, spsel>>

BootSwitchStep ==
  /\ PendSV_Handler
  /\ Elapse
  /\ UNCHANGED <<hist, since, nwait, ctxv, excv, boot, systick_on, spsel>>

BootLedStep ==
  /\ Booted
  /\ CanStep
  /\ \E i \in UserTasks : led_call(i)
  /\ Elapse
  /\ UNCHANGED <<hist, since, nwait, ctxv, excv, boot, systick_on, spsel>>

BootDelayStep ==
  /\ Booted
  /\ CanStep
  /\ \E i \in UserTasks : task_delay_call(i, Period(i), WideModulus)
  /\ Elapse
  /\ UNCHANGED <<hist, since, nwait, ctxv, excv, boot, systick_on, spsel>>

BootIdleStep ==
  /\ Booted
  /\ idle_handler
  /\ cvr' = 0
  /\ UNCHANGED <<hist, since, nwait, ctxv, excv, boot, systick_on, spsel>>

NextBoot ==
  \/ BootStep
  \/ BootTickStep
  \/ BootSwitchStep
  \/ BootLedStep
  \/ BootDelayStep
  \/ BootIdleStep

SpecBoot == InitBoot /\ [][NextBoot]_vars

\* main has executed its call of switch_sp_to_psp
PspLoaded ==
  \E k \in 1..(boot - 1) : k <= Len(BootProgram) /\ BootProgram[k] = "switch_sp_to_psp"

\* C17: PendSV_Handler runs only after switch_sp_to_psp has loaded PSP with
\* task 1's stack pointer and selected PSP as the stack of thread mode,
\* although the SysTick timer is enabled before switch_sp_to_psp is called.
NoSwitchBeforePsp ==
  /\ [][SwitchRan
         => (/\ PspLoaded
             /\ spsel
             /\ StackOwner(PSP) \in Tasks)]_vars
  /\ [](pendsv => PspLoaded)

\* the timer was enabled with PSP not yet loaded, and after the first tick
\* PendSV_Handler has saved the idle task through PSP and selected it again
NoSwitchBeforePspWitness ==
  /\ g_tick_count = 1
  /\ spsel
  /\ current_task = 0
  /\ ~pendsv
  /\ psp_value[1] = InitPsp(1) - FRAME_BYTES
  /\ cvr = count_val(TICK_HZ) + 1 - 2 * StmtCycles

====
